---- MODULE Spec2Model ----
(***************************************************************************)
(* Model of the booking, checkout and simulation handlers of src/app.py.   *)
(*                                                                         *)
(* The handlers run in the request threads of the Flask server (app.run,   *)
(* threaded by default) on the module-level globals parking_data,          *)
(* bookings, booking_counter and activity_log.  No handler takes a lock,   *)
(* so a handler is modelled as a sequence of steps, one per access to a    *)
(* shared object, and the steps of different threads interleave freely.    *)
(*                                                                         *)
(* Representation:                                                         *)
(*   - slot i stands for the key f"P{str(i).zfill(3)}"; dict order, row    *)
(*     order of the data frame and id order all coincide with 1..NumSlots; *)
(*   - Python's None (and an absent key) is the empty sequence <<>>, a      *)
(*     value x is <<x>>; the fields of a request are carried in that form  *)
(*     into the booking and the slot;                                      *)
(*   - wall-clock reads (datetime.now()) are inputs: the hour is drawn     *)
(*     from Hours at the step that reads the clock;                        *)
(*   - response is the response most recently returned by a handler.       *)
(***************************************************************************)
EXTENDS Integers, Sequences, FiniteSets, TLC

VARIABLES parking_data, bookings, booking_counter, activity_log, alerts,
          pc, local, response

vars == <<parking_data, bookings, booking_counter, activity_log, alerts,
          pc, local, response>>

store == <<parking_data, bookings, booking_counter, activity_log, alerts>>

----------------------------------------------------------------------------
(* Bounds of the model *)

NumSlots == 2
SlotsPerZone == 1
InitOccupied == 1
BookingsPerThread == 1

Threads == {"t1", "t2"}
Hours == {12}
SeqHours == {8, 12}
Durations == {5}

----------------------------------------------------------------------------
(* Configuration, src/app.py lines 19-24 *)

HOURLY_RATE == 50
FREE_HOURS == 2
PENALTY_RATE == 100
PEAK_HOUR_MULTIPLIER_X10 == 15
PEAK_HOURS == <<<<7, 10>>, <<17, 20>>>>
ACTIVITY_LOG_MAXLEN == 100

None == <<>>
Some(x) == <<x>>

Slots == 1..NumSlots
ZoneNames == <<"Zone-A", "Zone-B", "Zone-C", "Zone-D">>

\* f"Zone-{chr(65 + i // 25)}" for the 0-based index i = s - 1
ZoneOf(s) == ZoneNames[((s - 1) \div SlotsPerZone) + 1]

InitialSlot(s) ==
    IF s <= InitOccupied
    THEN [status |-> "occupied", entry_time |-> Some("entry"),
          zone |-> ZoneOf(s), vehicle_type |-> Some("Car"),
          license_plate |-> Some("MU-1000"), customer_id |-> Some("C1000"),
          is_reserved |-> FALSE, maintenance |-> FALSE]
    ELSE [status |-> "available", entry_time |-> None,
          zone |-> ZoneOf(s), vehicle_type |-> None,
          license_plate |-> None, customer_id |-> None,
          is_reserved |-> FALSE, maintenance |-> FALSE]

----------------------------------------------------------------------------
(* Helper functions *)

\* a window that holds its end hour too
is_peak_hour_closed(h) ==
    \E k \in 1..Len(PEAK_HOURS) : PEAK_HOURS[k][1] <= h /\ h <= PEAK_HOURS[k][2]

is_peak_hour(h) ==
    \E k \in 1..Len(PEAK_HOURS) : PEAK_HOURS[k][1] <= h /\ h < PEAK_HOURS[k][2]

\* the rate without the peak-hour multiplier
flat_rate(h) == HOURLY_RATE

get_dynamic_rate(h) ==
    IF is_peak_hour(h) THEN (HOURLY_RATE * PEAK_HOUR_MULTIPLIER_X10) \div 10
    ELSE HOURLY_RATE

\* deque(maxlen=100).append: the oldest entry is dropped when full
log_activity(log, action, details, user) ==
    LET entry == [user |-> user, action |-> action, details |-> details]
    IN  IF Len(log) >= ACTIVITY_LOG_MAXLEN
        THEN Append(Tail(log), entry)
        ELSE Append(log, entry)

\* the raw status alone
raw_status_column(d) ==
    IF d.status = "occupied" THEN "OCCUPIED" ELSE "AVAILABLE"

\* the "Status" column of get_parking_data
StatusColumn(d) ==
    IF d.maintenance THEN "MAINTENANCE"
    ELSE IF d.status = "occupied" THEN "OCCUPIED" ELSE "AVAILABLE"

\* df[df['Status'] == 'AVAILABLE'], as the set of its slot ids
available_df(pd) == {s \in Slots : StatusColumn(pd[s]) = "AVAILABLE"}

\* available_df[available_df['Zone'] == zone]
zone_available(pd, zone) == {s \in available_df(pd) : pd[s].zone = zone}

\* .iloc[0]: the first row, rows being in dict order
iloc0(S) == CHOOSE s \in S : \A u \in S : s <= u

\* the slot chosen by lines 373-380 and 1043-1054; the caller has checked
\* that available_df is not empty
SelectSlot(pd, zone) ==
    IF zone # None /\ zone_available(pd, zone[1]) # {}
    THEN iloc0(zone_available(pd, zone[1]))
    ELSE iloc0(available_df(pd))

RECURSIVE Digits(_)
Digits(n) == IF n < 10 THEN <<n>> ELSE Append(Digits(n \div 10), n % 10)

RECURSIVE zfill(_, _)
zfill(ds, w) == IF Len(ds) >= w THEN ds ELSE zfill(<<0>> \o ds, w)

\* f"BK{str(booking_counter).zfill(4)}"
BookingId(n) == [prefix |-> "BK", digits |-> zfill(Digits(n), 4)]

----------------------------------------------------------------------------
(* Requests *)

required_fields == {"name", "phone", "vehicle", "license", "duration"}

ZonePrefs == {None, Some("Zone-A"), Some("Zone-B")}

FullRequest(z, d) ==
    [name |-> Some("Ann"), phone |-> Some("555"), vehicle |-> Some("SUV"),
     license |-> Some("MU-2000"), duration |-> Some(d), zone |-> z]

Without(m) ==
    [f \in required_fields \cup {"zone"} |->
        IF f \in m THEN None ELSE FullRequest(None, 1)[f]]

MissingChoices == {{"phone"}, {"name", "duration"}, required_fields}

CompleteRequests == {FullRequest(z, d) : z \in ZonePrefs, d \in Durations}
IncompleteRequests == {Without(m) : m \in MissingChoices}
BookingRequests == CompleteRequests \cup IncompleteRequests

\* a required field left out of the check of line 359
api_invalid_without_phone(data) ==
    \E f \in required_fields \ {"phone"} : data[f] = None

\* line 359: not all(key in data for key in required_fields)
api_invalid(data) == \E f \in required_fields : data[f] = None

\* line 1035: not all([name, phone, vehicle, license_plate, duration]);
\* None, "" and 0 are falsy
FalsyText(v) == v = None \/ v = Some("")
FalsyNumber(v) == v = None \/ v = Some(0)
form_invalid(data) ==
    \/ \E f \in required_fields \ {"duration"} : FalsyText(data[f])
    \/ FalsyNumber(data.duration)

\* round(cost, 2) of a whole amount
round2(x) == (x * 100) \div 100

BookingPcs == {"read_counter", "load_counter", "store_counter", "append", "reserve"}

InFlight == Cardinality({u \in Threads : pc[u] \in BookingPcs})

\* the model admits BookingsPerThread bookings for each thread of T
Room(T) == Len(bookings) + InFlight < BookingsPerThread * Cardinality(T)

NoLocal == [op |-> "none"]
NoResponse == [kind |-> "none"]

----------------------------------------------------------------------------
(* State after module import *)

Init ==
    /\ parking_data = [s \in Slots |-> InitialSlot(s)]
    /\ bookings = <<>>
    /\ booking_counter = 1
    /\ activity_log = <<>>
    /\ alerts = <<>>
    /\ pc = [t \in Threads |-> "idle"]
    /\ local = [t \in Threads |-> NoLocal]
    /\ response = NoResponse

----------------------------------------------------------------------------
(* create_booking_api, lines 351-423 *)

\* lines 355-384: validation, snapshot, selection, cost
create_booking_api(t, data, h) ==
    /\ pc[t] = "idle"
    /\ IF api_invalid(data)
       THEN /\ response' = [kind |-> "ValidationError", named |-> required_fields]
            /\ UNCHANGED <<store, pc, local>>
       ELSE IF available_df(parking_data) = {}
       THEN /\ response' = [kind |-> "NoCapacity"]
            /\ UNCHANGED <<store, pc, local>>
       ELSE /\ LET slot == SelectSlot(parking_data, data.zone)
                   inzone == data.zone # None
                             /\ zone_available(parking_data, data.zone[1]) # {}
               IN  local' = [local EXCEPT ![t] =
                      [op |-> "api", name |-> data.name,
                       phone |-> data.phone, vehicle |-> data.vehicle,
                       license |-> data.license, slot |-> slot,
                       zone |-> IF inzone THEN data.zone
                                ELSE Some(parking_data[slot].zone),
                       duration |-> data.duration[1],
                       cost |-> round2(data.duration[1] * get_dynamic_rate(h)),
                       timestamp |-> h]]
            /\ pc' = [pc EXCEPT ![t] = "read_counter"]
            /\ UNCHANGED <<store, response>>

(* confirm_booking, lines 1033-1094 *)

\* lines 1035-1059: validation, snapshot, selection, cost
confirm_booking(t, data, h) ==
    /\ pc[t] = "idle"
    /\ IF form_invalid(data)
       THEN /\ response' = [kind |-> "ValidationError", named |-> {}]
            /\ UNCHANGED <<store, pc, local>>
       ELSE IF available_df(parking_data) = {}
       THEN /\ response' = [kind |-> "NoCapacity"]
            /\ UNCHANGED <<store, pc, local>>
       ELSE /\ local' = [local EXCEPT ![t] =
                      [op |-> "form", name |-> data.name,
                       phone |-> data.phone, vehicle |-> data.vehicle,
                       license |-> data.license,
                       slot |-> SelectSlot(parking_data, data.zone),
                       zone |-> None,
                       duration |-> data.duration[1],
                       cost |-> data.duration[1] * get_dynamic_rate(h),
                       timestamp |-> h]]
            /\ pc' = [pc EXCEPT ![t] = "read_counter"]
            /\ UNCHANGED <<store, response>>

\* lines 388 and 1060: booking_id = f"BK{str(booking_counter).zfill(4)}"
ReadCounter(t) ==
    /\ pc[t] = "read_counter"
    /\ local' = [local EXCEPT ![t] =
            [k \in DOMAIN local[t] \cup {"booking_id"} |->
                IF k = "booking_id" THEN BookingId(booking_counter)
                ELSE local[t][k]]]
    /\ pc' = [pc EXCEPT ![t] = "load_counter"]
    /\ UNCHANGED <<store, response>>

\* lines 389 and 1061: booking_counter += 1, the load of the global
LoadCounter(t) ==
    /\ pc[t] = "load_counter"
    /\ local' = [local EXCEPT ![t] =
            [k \in DOMAIN local[t] \cup {"tmp"} |->
                IF k = "tmp" THEN booking_counter ELSE local[t][k]]]
    /\ pc' = [pc EXCEPT ![t] = "store_counter"]
    /\ UNCHANGED <<store, response>>

\* lines 389 and 1061: booking_counter += 1, the store of the global
StoreCounter(t) ==
    /\ pc[t] = "store_counter"
    /\ booking_counter' = local[t].tmp + 1
    /\ local' = [local EXCEPT ![t] =
            [k \in DOMAIN local[t] \ {"tmp"} |-> local[t][k]]]
    /\ pc' = [pc EXCEPT ![t] = "append"]
    /\ UNCHANGED <<parking_data, bookings, activity_log, alerts, response>>

\* the dict appended by lines 391-406 and 1063-1074
NewBooking(l) ==
    [id |-> l.booking_id, name |-> l.name, phone |-> l.phone,
     vehicle |-> l.vehicle, license |-> l.license,
     slot |-> l.slot, zone |-> l.zone, duration |-> l.duration,
     cost |-> l.cost, timestamp |-> l.timestamp, status |-> "active",
     checkout_time |-> None]

AppendBooking(t) ==
    /\ pc[t] = "append"
    /\ bookings' = Append(bookings, NewBooking(local[t]))
    /\ pc' = [pc EXCEPT ![t] = "reserve"]
    /\ UNCHANGED <<parking_data, booking_counter, activity_log, alerts, local, response>>

\* the slot left as it was
slot_not_marked(d, l) == d

\* lines 409-411 (api) and 1076 (form): the writes to the slot
MarkReserved(d, l) ==
    IF l.op = "api"
    THEN [d EXCEPT !.is_reserved = TRUE, !.vehicle_type = l.vehicle,
                   !.license_plate = l.license]
    ELSE [d EXCEPT !.is_reserved = TRUE]

\* lines 409-414 and 1076-1077: mark the slot and log
ReserveSlot(t) ==
    /\ pc[t] = "reserve"
    /\ parking_data' = [parking_data EXCEPT
            ![local[t].slot] = MarkReserved(parking_data[local[t].slot], local[t])]
    /\ activity_log' = log_activity(activity_log, "Booking Created",
            <<local[t].booking_id, local[t].slot>>, local[t].name)
    /\ pc' = [pc EXCEPT ![t] = "idle"]
    /\ response' = [kind |-> "Booked"]
    /\ local' = [local EXCEPT ![t] = NoLocal]
    /\ UNCHANGED <<bookings, booking_counter, alerts>>

----------------------------------------------------------------------------
(* checkout_booking_api, lines 464-497 *)

CheckoutIds == {BookingId(n) : n \in 1..(BookingsPerThread + 1)}

\* next((b for b in bookings if b['id'] == booking_id), None), as an index;
\* 0 when there is none
FindBooking(bs, booking_id) ==
    LET hits == {i \in 1..Len(bs) : bs[i].id = booking_id}
    IN  IF hits = {} THEN 0 ELSE CHOOSE i \in hits : \A j \in hits : i <= j

\* the handler without the status check of lines 474-475
checkout_without_status_check(t, booking_id) ==
    /\ pc[t] = "idle"
    /\ LET i == FindBooking(bookings, booking_id)
       IN  IF i = 0
           THEN /\ response' = [kind |-> "NotFound"]
                /\ UNCHANGED <<pc, local>>
           ELSE /\ local' = [local EXCEPT ![t] =
                        [op |-> "checkout", booking_id |-> booking_id, bidx |-> i]]
                /\ pc' = [pc EXCEPT ![t] = "co_status"]
                /\ UNCHANGED response
    /\ UNCHANGED store

\* lines 469-475: lookup and status check
checkout_booking_api(t, booking_id) ==
    /\ pc[t] = "idle"
    /\ LET i == FindBooking(bookings, booking_id)
       IN  IF i = 0
           THEN /\ response' = [kind |-> "NotFound"]
                /\ UNCHANGED <<pc, local>>
           ELSE IF bookings[i].status # "active"
           THEN /\ response' = [kind |-> "AlreadyCompleted"]
                /\ UNCHANGED <<pc, local>>
           ELSE /\ local' = [local EXCEPT ![t] =
                        [op |-> "checkout", booking_id |-> booking_id, bidx |-> i]]
                /\ pc' = [pc EXCEPT ![t] = "co_status"]
                /\ UNCHANGED response
    /\ UNCHANGED store

\* lines 478-479: the booking becomes completed
CompleteBooking(t, h) ==
    /\ pc[t] = "co_status"
    /\ bookings' = [bookings EXCEPT ![local[t].bidx] =
            [@ EXCEPT !.status = "completed", !.checkout_time = Some(h)]]
    /\ pc' = [pc EXCEPT ![t] = "co_free"]
    /\ UNCHANGED <<parking_data, booking_counter, activity_log, alerts, local, response>>

\* lines 483-486: the writes to the slot
FreeSlot(d) ==
    [d EXCEPT !.is_reserved = FALSE, !.status = "available",
              !.vehicle_type = None, !.license_plate = None]

\* lines 482-488: free the slot and log
ReleaseSlot(t) ==
    /\ pc[t] = "co_free"
    /\ LET b == bookings[local[t].bidx]
       IN  /\ parking_data' =
                IF b.slot \in DOMAIN parking_data
                THEN [parking_data EXCEPT ![b.slot] = FreeSlot(parking_data[b.slot])]
                ELSE parking_data
           /\ activity_log' = log_activity(activity_log, "Booking Completed",
                    <<local[t].booking_id>>, b.name)
    /\ pc' = [pc EXCEPT ![t] = "idle"]
    /\ response' = [kind |-> "CheckedOut"]
    /\ local' = [local EXCEPT ![t] = NoLocal]
    /\ UNCHANGED <<bookings, booking_counter, alerts>>

----------------------------------------------------------------------------
(* simulate_parking_activity, lines 101-119 *)

\* lines 107-119: what the loop body does to a slot whose draw is < 0.08
SimulateSlot(d) ==
    IF d.status = "available" /\ ~d.is_reserved
    THEN [d EXCEPT !.status = "occupied", !.entry_time = Some("entry"),
                   !.vehicle_type = Some("Car"),
                   !.license_plate = Some("MU-1000"),
                   !.customer_id = Some("C1000")]
    ELSE [d EXCEPT !.status = "available", !.entry_time = None,
                   !.vehicle_type = None, !.license_plate = None,
                   !.customer_id = None]

\* one pass of the loop; hit is the set of slots whose draw is < 0.08.
\* A pass interleaved with other handlers' steps between two slots is two
\* passes with complementary hit sets around those steps.
simulate_parking_activity(hit) ==
    /\ parking_data' = [s \in Slots |->
            IF parking_data[s].maintenance THEN parking_data[s]
            ELSE IF s \in hit THEN SimulateSlot(parking_data[s])
            ELSE parking_data[s]]
    /\ UNCHANGED <<bookings, booking_counter, activity_log, alerts, pc, local,
                 response>>

----------------------------------------------------------------------------
(* get_parking_data, lines 178-234, and get_statistics, lines 237-273.     *)
(*                                                                         *)
(* Times are minutes since midnight: an entry time is the minute the       *)
(* stored string denotes and now is the minute the clock reads during the  *)
(* query.  duration_seconds / 3600 is kept as its number of minutes m,     *)
(* duration_hours being m / 60.  The wall clock is not monotonic (naive    *)
(* local time), so now may lie before a stored entry time.                 *)

EntryTimes == {480, 600}
QueryTimes == {420, 590, 600, 720, 730, 1020, 1200}

\* a clock that always reads noon
noon(now) == 12

\* datetime.datetime.now().hour
current_hour(now) == (now \div 60) % 24

\* int(duration_hours): truncation towards zero
int_hours(m) == IF m >= 0 THEN m \div 60 ELSE -((-m) \div 60)

\* the whole hours alone
whole_hours(m) == int_hours(m)

\* line 202: int(duration_hours) + (1 if duration_hours % 1 > 0 else 0);
\* Python's % 1 of a negative non-integer is positive
total_hours(m) == int_hours(m) + (IF m % 60 # 0 THEN 1 ELSE 0)

\* a penalty on every billed hour
fine_on_every_hour(m) ==
    IF m > FREE_HOURS * 60 THEN total_hours(m) * PENALTY_RATE ELSE 0

\* lines 211-213
overstay_fine(m) ==
    IF m > FREE_HOURS * 60 THEN (total_hours(m) - FREE_HOURS) * PENALTY_RATE
    ELSE 0

\* billing by the raw status
billed_by_raw_status(d) == d.status = "occupied" /\ d.entry_time # None

\* line 198, after the override of lines 195-196
billed(d) == StatusColumn(d) = "OCCUPIED" /\ d.entry_time # None

\* the row of lines 215-233 for slot s with details d
Row(s, d, now) ==
    LET m == IF billed(d) THEN now - d.entry_time[1] ELSE 0
        rate == get_dynamic_rate(current_hour(now))
        revenue == IF billed(d) THEN total_hours(m) * rate ELSE 0
        fine == IF billed(d) THEN overstay_fine(m) ELSE 0
        occ == StatusColumn(d) = "OCCUPIED"
    IN  [slot_id |-> s, Zone |-> d.zone, Status |-> StatusColumn(d),
         Vehicle |-> IF occ THEN d.vehicle_type ELSE None,
         License |-> IF occ THEN d.license_plate ELSE None,
         Customer |-> IF occ THEN d.customer_id ELSE None,
         Entry |-> d.entry_time,
         Duration |-> IF billed(d)
                      THEN Some(<<int_hours(m), (m % 60)>>) ELSE None,
         Rate |-> IF occ THEN Some(rate) ELSE None,
         revenue |-> revenue, fine |-> fine, Total |-> revenue + fine,
         duration_min |-> m,
         is_reserved |-> d.is_reserved, maintenance |-> d.maintenance]

\* the data frame, one row per slot in dict order
get_parking_data(pd, now) == [s \in DOMAIN pd |-> Row(s, pd[s], now)]

RECURSIVE SumOver(_, _, _)
\* df[col].sum() over the rows S
SumOver(df, col, S) ==
    IF S = {} THEN 0
    ELSE LET s == CHOOSE x \in S : TRUE
         IN  df[s][col] + SumOver(df, col, S \ {s})

\* lines 238-273 for a data frame with rows; total_slots is TOTAL_SLOTS.
\* A quotient n / d is the pair <<n, d>>.  turnover_rate and avg_wait are
\* random numbers and are left out.
get_statistics(df, total_slots) ==
    LET rows == DOMAIN df
        occupied_df == {s \in rows : df[s].Status = "OCCUPIED"}
        occupied == Cardinality(occupied_df)
        total_revenue == SumOver(df, "revenue", rows)
        total_fines == SumOver(df, "fine", rows)
    IN  [occupied |-> occupied,
         available |-> Cardinality({s \in rows : df[s].Status = "AVAILABLE"}),
         reserved |-> Cardinality({s \in rows : df[s].is_reserved}),
         maintenance |-> Cardinality({s \in rows : df[s].maintenance}),
         occupancy_rate |-> <<occupied * 100, total_slots>>,
         total_revenue |-> total_revenue,
         total_fines |-> total_fines,
         total_earnings |-> total_revenue + total_fines,
         avg_duration |-> IF occupied > 0
                          THEN <<SumOver(df, "duration_min", occupied_df),
                                 60 * occupied>>
                          ELSE <<0, 1>>,
         overstay_count |-> Cardinality({s \in rows : df[s].fine > 0})]

\* lines 1196 and 1302-1305: the data frame shown as the slot table
show_parking_data(now) ==
    /\ response' = [kind |-> "Table",
                    rows |-> get_parking_data(parking_data, now)]
    /\ UNCHANGED <<store, pc, local>>

\* lines 501-529; TOTAL_SLOTS is the length of the inventory built from it
\* (lines 43-54).  With no row the data frame has no column and line 238
\* raises KeyError, which line 528 turns into an error response.
get_stats_api(now) ==
    /\ LET df == get_parking_data(parking_data, now)
       IN  response' =
              IF DOMAIN df = {}
              THEN [kind |-> "ServerError"]
              ELSE [kind |-> "Stats",
                    overall |-> get_statistics(df, Len(parking_data)),
                    current_rate |-> get_dynamic_rate(current_hour(now))]
    /\ UNCHANGED <<store, pc, local>>

\* what a slot holds besides its zone
SlotShapes ==
    {[status |-> st, entry_time |-> e, is_reserved |-> r, maintenance |-> mt] :
        st \in {"available", "occupied"}, e \in {None} \cup {Some(x) : x \in EntryTimes},
        r \in BOOLEAN, mt \in BOOLEAN}
    \ {[status |-> "occupied", entry_time |-> None, is_reserved |-> r,
         maintenance |-> mt] : r \in BOOLEAN, mt \in BOOLEAN}

SlotOf(s, sh) ==
    LET occ == sh.status = "occupied"
    IN  [status |-> sh.status, entry_time |-> sh.entry_time, zone |-> ZoneOf(s),
         vehicle_type |-> IF occ THEN Some("Car") ELSE None,
         license_plate |-> IF occ THEN Some("MU-1000") ELSE None,
         customer_id |-> IF occ THEN Some("C1000") ELSE None,
         is_reserved |-> sh.is_reserved, maintenance |-> sh.maintenance]

\* the inventories the queries are applied to: every filling of the slots,
\* and the inventory of a configuration without slots
InitBilling ==
    /\ \E n \in {0, NumSlots} : \E sh \in [1..n -> SlotShapes] :
            parking_data = [s \in 1..n |-> SlotOf(s, sh[s])]
    /\ bookings = <<>>
    /\ booking_counter = 1
    /\ activity_log = <<>>
    /\ alerts = <<>>
    /\ pc = [t \in Threads |-> "idle"]
    /\ local = [t \in Threads |-> NoLocal]
    /\ response = NoResponse

NextBilling ==
    \/ \E now \in QueryTimes : show_parking_data(now)
    \/ \E now \in QueryTimes : get_stats_api(now)

SpecBilling == InitBilling /\ [][NextBilling]_vars

----------------------------------------------------------------------------

\* the steps of the handlers in threads T when the clock reads an hour of H
Handlers(T, H) ==
    \/ \E t \in T, data \in BookingRequests, h \in H :
            /\ create_booking_api(t, data, h)
            /\ pc'[t] # "idle" => Room(T)
    \/ \E t \in T, data \in BookingRequests, h \in H :
            /\ confirm_booking(t, data, h)
            /\ pc'[t] # "idle" => Room(T)
    \/ \E t \in T : ReadCounter(t)
    \/ \E t \in T : LoadCounter(t)
    \/ \E t \in T : StoreCounter(t)
    \/ \E t \in T : AppendBooking(t)
    \/ \E t \in T : ReserveSlot(t)
    \/ \E t \in T, booking_id \in CheckoutIds :
            checkout_booking_api(t, booking_id)
    \/ \E t \in T, h \in H : CompleteBooking(t, h)
    \/ \E t \in T : ReleaseSlot(t)

\* two request threads and the simulation pass of the dashboard refresh,
\* all interleaved
Next ==
    \/ Handlers(Threads, Hours)
    \/ \E hit \in SUBSET Slots : simulate_parking_activity(hit)

Spec == Init /\ [][Next]_vars

\* one thread: requests and simulation passes are served one after the
\* other, each request at a peak or an off-peak hour
NextSeq ==
    \/ Handlers({"t1"}, SeqHours)
    \/ /\ \A t \in Threads : pc[t] = "idle"
       /\ \E hit \in SUBSET Slots : simulate_parking_activity(hit)

SpecSeq == Init /\ [][NextSeq]_vars

\* requests that carry every field, with a duration of zero or below
NonPositiveRequests == {FullRequest(None, d) : d \in {0, -1}}

\* one thread that is also sent the requests of NonPositiveRequests
NextNonPositive ==
    \/ NextSeq
    \/ \E data \in NonPositiveRequests, h \in SeqHours :
            /\ create_booking_api("t1", data, h)
            /\ pc'["t1"] # "idle" => Room({"t1"})
    \/ \E data \in NonPositiveRequests, h \in SeqHours :
            /\ confirm_booking("t1", data, h)
            /\ pc'["t1"] # "idle" => Room({"t1"})

SpecNonPositive == Init /\ [][NextNonPositive]_vars

----------------------------------------------------------------------------
(* check_alerts, lines 134-175, called by render_tab_content, lines        *)
(* 1194-1215, and read by render_dashboard, lines 1284-1300.               *)
(*                                                                         *)
(* alerts is a module global: check_alerts rebinds it to a new list and    *)
(* appends to it, and the render function reads it afterwards, so the      *)
(* handler is a sequence of steps, one per access to the global.  The      *)
(* statistics of the handler's snapshot are drawn from a set that holds    *)
(* the thresholds of the alerts for an inventory of 100 slots; the clock   *)
(* is read once per handler.                                               *)

\* the quotient q = <<n, d>> is greater than x
Exceeds(q, x) == q[1] > x * q[2]

Alert(type, about) == [type |-> type, about |-> about]

StatsInputs ==
    {[occupancy_rate |-> <<n * 100, 100>>, overstay_count |-> c,
      total_earnings |-> e] :
        n \in {70, 71, 85, 86}, c \in {0, 1}, e \in {10000, 10001}}

\* statistics that raise every alert and statistics that raise none
RaceStats ==
    {[occupancy_rate |-> <<8600, 100>>, overstay_count |-> 1,
      total_earnings |-> 10001],
     [occupancy_rate |-> <<7000, 100>>, overstay_count |-> 0,
      total_earnings |-> 10000]}

\* the second test as an if of its own
occupancy_alert_two_ifs(stats) ==
    (IF Exceeds(stats.occupancy_rate, 85)
     THEN <<Alert("critical", "occupancy")>> ELSE <<>>)
    \o (IF Exceeds(stats.occupancy_rate, 70)
        THEN <<Alert("warning", "occupancy")>> ELSE <<>>)

\* lines 138-151: what the if / elif appends
occupancy_alert(stats) ==
    IF Exceeds(stats.occupancy_rate, 85)
    THEN <<Alert("critical", "occupancy")>>
    ELSE IF Exceeds(stats.occupancy_rate, 70)
    THEN <<Alert("warning", "occupancy")>>
    ELSE <<>>

\* lines 1194-1197: the simulation pass, the snapshot and its statistics
render_tab_content(t, hit, stats, h) ==
    /\ pc[t] = "idle"
    /\ parking_data' = [s \in Slots |->
            IF parking_data[s].maintenance THEN parking_data[s]
            ELSE IF s \in hit THEN SimulateSlot(parking_data[s])
            ELSE parking_data[s]]
    /\ local' = [local EXCEPT ![t] = [op |-> "tab", stats |-> stats, hour |-> h]]
    /\ pc' = [pc EXCEPT ![t] = "al_reset"]
    /\ UNCHANGED <<bookings, booking_counter, activity_log, alerts, response>>

\* the list of the last evaluation kept
keep_alerts(t) ==
    /\ pc[t] = "al_reset"
    /\ pc' = [pc EXCEPT ![t] = "al_occupancy"]
    /\ UNCHANGED <<store, local, response>>

\* line 136: alerts = []
ResetAlerts(t) ==
    /\ pc[t] = "al_reset"
    /\ alerts' = <<>>
    /\ pc' = [pc EXCEPT ![t] = "al_occupancy"]
    /\ UNCHANGED <<parking_data, bookings, booking_counter, activity_log,
                   local, response>>

\* lines 138-151
OccupancyAlert(t) ==
    /\ pc[t] = "al_occupancy"
    /\ alerts' = alerts \o occupancy_alert(local[t].stats)
    /\ pc' = [pc EXCEPT ![t] = "al_overstay"]
    /\ UNCHANGED <<parking_data, bookings, booking_counter, activity_log,
                   local, response>>

\* lines 153-159
OverstayAlert(t) ==
    /\ pc[t] = "al_overstay"
    /\ alerts' = IF local[t].stats.overstay_count > 0
                 THEN Append(alerts, Alert("warning", "overstay"))
                 ELSE alerts
    /\ pc' = [pc EXCEPT ![t] = "al_revenue"]
    /\ UNCHANGED <<parking_data, bookings, booking_counter, activity_log,
                   local, response>>

\* lines 161-167
RevenueAlert(t) ==
    /\ pc[t] = "al_revenue"
    /\ alerts' = IF local[t].stats.total_earnings > 10000
                 THEN Append(alerts, Alert("success", "revenue"))
                 ELSE alerts
    /\ pc' = [pc EXCEPT ![t] = "al_peak"]
    /\ UNCHANGED <<parking_data, bookings, booking_counter, activity_log,
                   local, response>>

\* lines 169-175
PeakAlert(t) ==
    /\ pc[t] = "al_peak"
    /\ alerts' = IF is_peak_hour(local[t].hour)
                 THEN Append(alerts, Alert("info", "peak"))
                 ELSE alerts
    /\ pc' = [pc EXCEPT ![t] = "al_render"]
    /\ UNCHANGED <<parking_data, bookings, booking_counter, activity_log,
                   local, response>>

\* lines 1284-1300: alerts[:5] of the global, as the dashboard shows it
render_dashboard(t) ==
    /\ pc[t] = "al_render"
    /\ response' = [kind |-> "Dashboard",
                    alerts |-> SubSeq(alerts, 1,
                                      IF Len(alerts) < 5 THEN Len(alerts) ELSE 5)]
    /\ pc' = [pc EXCEPT ![t] = "idle"]
    /\ local' = [local EXCEPT ![t] = NoLocal]
    /\ UNCHANGED store

\* the steps of the dashboard refresh in threads T on statistics of S when
\* the clock reads an hour of H
AlertSteps(T, S, H) ==
    \/ \E t \in T, hit \in SUBSET Slots, stats \in S, h \in H :
            render_tab_content(t, hit, stats, h)
    \/ \E t \in T : ResetAlerts(t)
    \/ \E t \in T : OccupancyAlert(t)
    \/ \E t \in T : OverstayAlert(t)
    \/ \E t \in T : RevenueAlert(t)
    \/ \E t \in T : PeakAlert(t)
    \/ \E t \in T : render_dashboard(t)

\* two refreshes in two request threads
NextAlerts == AlertSteps(Threads, RaceStats, Hours)

SpecAlerts == Init /\ [][NextAlerts]_vars

\* one refresh after the other
NextAlertsSeq == AlertSteps({"t1"}, StatsInputs, SeqHours)

SpecAlertsSeq == Init /\ [][NextAlertsSeq]_vars

----------------------------------------------------------------------------
(* Vocabulary of the properties *)

\* a slot is allocatable iff it is available, not reserved, not in maintenance
Eligible(d) == d.status = "available" /\ ~d.is_reserved /\ ~d.maintenance

EligibleSlots(pd) == {s \in Slots : Eligible(pd[s])}

\* the mandatory fields a request does not carry
Missing(data) == {f \in required_fields : data[f] = None}

LeastOf(S) == CHOOSE s \in S : \A u \in S : s <= u

\* thread t passes validation and selection and goes on to book local'[t].slot
Selects(t) == pc[t] = "idle" /\ pc'[t] = "read_counter"

Active(i) == bookings[i].status = "active"

----------------------------------------------------------------------------
(* C1: a booking never selects a slot that at selection time is reserved,  *)
(* in maintenance or occupied.                                             *)
C1_SelectsOnlyFreeSlots ==
    [][\A t \in Threads :
          Selects(t) =>
              LET d == parking_data[local'[t].slot]
              IN  ~d.is_reserved /\ ~d.maintenance /\ d.status # "occupied"]_vars

(* C2: no slot is referenced by two bookings that are Active at the same   *)
(* time.                                                                   *)
C2_OneActiveBookingPerSlot ==
    \A i, j \in 1..Len(bookings) :
        (i # j /\ Active(i) /\ Active(j)) => bookings[i].slot # bookings[j].slot

(* C3: a request whose chosen slot is no longer eligible when it comes to  *)
(* write does not create a booking for the slot and does not mark it       *)
(* reserved.                                                               *)
C3_StaleSelectionIsNotWritten ==
    [][\A t \in Threads :
          ((pc[t] = "append" /\ pc'[t] = "reserve")
              \/ (pc[t] = "reserve" /\ pc'[t] = "idle"))
          => Eligible(parking_data[local[t].slot])]_vars

\* the choice the selection policy prescribes among the eligible slots
PolicyChoice(pd, zone) ==
    LET inzone == IF zone = None THEN {}
                  ELSE {s \in EligibleSlots(pd) : pd[s].zone = zone[1]}
    IN  IF inzone # {} THEN LeastOf(inzone) ELSE LeastOf(EligibleSlots(pd))

(* C4: the allocated slot is the smallest-id eligible slot of the          *)
(* requested zone when that zone has an eligible slot, and otherwise the   *)
(* smallest-id eligible slot of the whole inventory.                       *)
C4_SmallestEligibleSlot ==
    [][\A t \in Threads, data \in CompleteRequests, h \in Hours :
          ((create_booking_api(t, data, h) \/ confirm_booking(t, data, h))
              /\ Selects(t))
          => /\ EligibleSlots(parking_data) # {}
             /\ local'[t].slot = PolicyChoice(parking_data, data.zone)]_vars

(* C5: a request with all mandatory fields is rejected with NoCapacity if  *)
(* and only if no slot is eligible, and the rejection leaves the slots,    *)
(* the bookings, the counter and the log unchanged.                        *)
C5_NoCapacityIffNoneEligible ==
    [][\A t \in Threads, data \in CompleteRequests, h \in Hours :
          (create_booking_api(t, data, h) \/ confirm_booking(t, data, h))
          => /\ pc'[t] = "idle" <=> EligibleSlots(parking_data) = {}
             /\ pc'[t] = "idle" =>
                    response'.kind = "NoCapacity" /\ UNCHANGED store]_vars

C7_BookingIdsDistinct ==
    \A i, j \in 1..Len(bookings) : i # j => bookings[i].id # bookings[j].id

(* C8: after a successful checkout the booking is Completed with its       *)
(* checkout time set and its slot is available, not reserved, without      *)
(* entry time, vehicle type, license plate or customer id.                 *)
C8_CheckoutClearsTheSlot ==
    [][\A t \in Threads :
          (pc[t] = "co_free" /\ pc'[t] = "idle") =>
              LET b == bookings'[local[t].bidx]
                  d == parking_data'[b.slot]
              IN  /\ b.status = "completed" /\ b.checkout_time # None
                  /\ ~d.is_reserved /\ d.status = "available"
                  /\ d.entry_time = None /\ d.vehicle_type = None
                  /\ d.license_plate = None /\ d.customer_id = None]_vars

(* C9: a checkout that does not succeed, NotFound for an id of no stored   *)
(* booking and AlreadyCompleted for a booking that is not Active, leaves   *)
(* every booking, every slot and the log unchanged.                        *)
C9_FailedCheckoutChangesNothing ==
    [][\A t \in Threads, booking_id \in CheckoutIds :
          checkout_booking_api(t, booking_id) =>
              LET hits == {i \in 1..Len(bookings) : bookings[i].id = booking_id}
              IN  /\ hits = {} =>
                        /\ response'.kind = "NotFound"
                        /\ UNCHANGED <<store, pc, local>>
                  /\ (hits # {} /\ ~Active(LeastOf(hits))) =>
                        /\ response'.kind = "AlreadyCompleted"
                        /\ UNCHANGED <<store, pc, local>>
                  /\ pc'[t] = "idle" =>
                        /\ response'.kind \in {"NotFound", "AlreadyCompleted"}
                        /\ UNCHANGED <<store, local>>]_vars

\* a second checkout of a completed booking was answered AlreadyCompleted
C9_SecondCheckoutRejected ==
    /\ response.kind = "AlreadyCompleted"
    /\ \E i \in 1..Len(bookings) : bookings[i].status = "completed"

(* C10: of two concurrent checkouts of the same Active booking at most one *)
(* succeeds and frees the slot.                                            *)
C10_AtMostOneCheckoutSucceeds ==
    \A i, j \in 1..Len(activity_log) :
        (i # j /\ activity_log[i].action = "Booking Completed"
               /\ activity_log[j].action = "Booking Completed")
        => activity_log[i].details # activity_log[j].details

\* thread t takes a step of a booking that passed validation and selection
BookingStep(t) == Selects(t) \/ (pc[t] \in BookingPcs /\ pc'[t] # pc[t])

TariffRate(h) ==
    IF (7 <= h /\ h < 10) \/ (17 <= h /\ h < 20) THEN 75 ELSE 50

(* C12: the cost of every booking equals its requested duration times the  *)
(* dynamic rate at the hour it was created (duration 5 at rate 50 gives    *)
(* 250), and no later step changes the stored cost.                        *)
C12_CostIsDurationTimesRate ==
    [][\A i \in 1..Len(bookings') :
          /\ bookings'[i].cost =
                bookings'[i].duration * TariffRate(bookings'[i].timestamp)
          /\ i <= Len(bookings) =>
                /\ bookings'[i].cost = bookings[i].cost
                /\ bookings'[i].duration = bookings[i].duration
                /\ bookings'[i].timestamp = bookings[i].timestamp]_vars

\* a booking made in a peak hour for 5 hours was checked out and still
\* costs 375
C12_PeakBookingCheckedOut ==
    \E i \in 1..Len(bookings) :
        /\ bookings[i].status = "completed"
        /\ bookings[i].timestamp = 8 /\ bookings[i].duration = 5
        /\ bookings[i].cost = 375

----------------------------------------------------------------------------
(* Billing and statistics *)

\* the hour of day of minute now
HourOf(now) == (now \div 60) % 24

\* m minutes rounded up to whole hours, m >= 0
CeilHours(m) == (m + 59) \div 60

\* the effective status of a slot
Effective(d) ==
    IF d.maintenance THEN "MAINTENANCE"
    ELSE IF d.status = "occupied" THEN "OCCUPIED" ELSE "AVAILABLE"

\* slot s is effectively occupied and has an entry time
Parked(s) ==
    Effective(parking_data[s]) = "OCCUPIED" /\ parking_data[s].entry_time # None

EnteredAt(s) == parking_data[s].entry_time[1]

(* C13: for every occupied slot with entry time not after now, the fee is  *)
(* the duration rounded up to the next whole hour (unchanged when it is a  *)
(* whole number of hours) times the rate; 2h10m at rate 50 gives fee 150   *)
(* and exactly 2h00m gives fee 100.                                        *)
C13_FeeIsHoursRoundedUpTimesRate ==
    [][\A now \in QueryTimes :
          show_parking_data(now) =>
              \A s \in DOMAIN parking_data :
                  (Parked(s) /\ EnteredAt(s) <= now) =>
                      LET r == response'.rows[s]
                          m == now - EnteredAt(s)
                      IN  /\ r.duration_min = m
                          /\ r.revenue = CeilHours(m) * r.Rate[1]
                          /\ (m = 130 /\ r.Rate[1] = 50) => r.revenue = 150
                          /\ (m = 120 /\ r.Rate[1] = 50) => r.revenue = 100]_vars

\* a stay of 2h10m billed three hours at rate 50
C13_TwoHoursTenBilledThree ==
    /\ response.kind = "Table"
    /\ \E s \in DOMAIN response.rows :
          /\ response.rows[s].duration_min = 130
          /\ response.rows[s].Rate = Some(50)
          /\ response.rows[s].revenue = 150

(* C14: for every occupied slot the fine is 0 when the duration does not   *)
(* exceed the free hours, and (billable hours - free hours) times the      *)
(* penalty rate, hence positive, when it does; total = fee + fine.         *)
C14_FineBeyondFreeHours ==
    [][\A now \in QueryTimes :
          show_parking_data(now) =>
              \A s \in DOMAIN parking_data :
                  Parked(s) =>
                      LET r == response'.rows[s]
                          m == now - EnteredAt(s)
                      IN  /\ m <= 2 * 60 => r.fine = 0
                          /\ m > 2 * 60 =>
                                /\ r.fine = (CeilHours(m) - 2) * 100
                                /\ r.fine > 0
                          /\ r.Total = r.revenue + r.fine]_vars

\* a stay of four hours fined for two of them
C14_FourHoursFinedTwo ==
    /\ response.kind = "Table"
    /\ \E s \in DOMAIN response.rows :
          /\ response.rows[s].duration_min = 240
          /\ response.rows[s].fine = 200
          /\ response.rows[s].Total = response.rows[s].revenue + 200

(* C15: the effective status of a slot is Maintenance when its maintenance *)
(* flag is set, else Occupied when its raw status is occupied, else        *)
(* Available; duration, fee and fine are zero for every slot that is not   *)
(* effectively Occupied, a maintenance slot with raw status occupied and   *)
(* an entry time included.                                                 *)
C15_OnlyOccupiedSlotsAreBilled ==
    [][\A now \in QueryTimes :
          show_parking_data(now) =>
              \A s \in DOMAIN parking_data :
                  LET r == response'.rows[s]
                  IN  /\ r.Status = Effective(parking_data[s])
                      /\ r.Status # "OCCUPIED" =>
                            /\ r.duration_min = 0 /\ r.Duration = None
                            /\ r.revenue = 0 /\ r.fine = 0]_vars

\* a slot in maintenance with a parked vehicle was listed without charge
C15_MaintenanceSlotNotBilled ==
    /\ response.kind = "Table"
    /\ \E s \in DOMAIN response.rows :
          /\ parking_data[s].maintenance
          /\ parking_data[s].status = "occupied"
          /\ parking_data[s].entry_time # None
          /\ response.rows[s].Status = "MAINTENANCE"
          /\ response.rows[s].revenue = 0

(* C16: for an occupied slot whose entry time is later than now the        *)
(* duration is reported as 0, so fee 0 and fine 0; no row has a negative   *)
(* duration, fee or fine.                                                  *)
C16_FutureEntryBilledZero ==
    [][\A now \in QueryTimes :
          show_parking_data(now) =>
              \A s \in DOMAIN parking_data :
                  LET r == response'.rows[s]
                  IN  /\ (Parked(s) /\ EnteredAt(s) > now) =>
                            r.duration_min = 0 /\ r.revenue = 0 /\ r.fine = 0
                      /\ r.duration_min >= 0 /\ r.revenue >= 0
                      /\ r.fine >= 0]_vars

(* C17: the dynamic rate depends on the hour of day alone: 75 for the      *)
(* hours h with 7 <= h < 10 or 17 <= h < 20 and 50 for every other hour,   *)
(* so 7 and 17 are peak hours and 10 and 20 are not.                       *)
C17_RateIsStepFunctionOfHour ==
    [][/\ \A h \in 0..23 : get_dynamic_rate(h) = TariffRate(h)
       /\ get_dynamic_rate(7) = 75 /\ get_dynamic_rate(17) = 75
       /\ get_dynamic_rate(10) = 50 /\ get_dynamic_rate(20) = 50
       /\ \A now \in QueryTimes :
            /\ (get_stats_api(now) /\ response'.kind = "Stats") =>
                  response'.current_rate = TariffRate(HourOf(now))
            /\ show_parking_data(now) =>
                  \A s \in DOMAIN parking_data :
                      response'.rows[s].Rate # None =>
                          response'.rows[s].Rate[1] = TariffRate(HourOf(now))]_vars

\* the statistics reported the peak rate
C17_PeakRateReported ==
    response.kind = "Stats" /\ response.current_rate = 75

(* C18: the fee of a parked vehicle is, on every query, the billable hours *)
(* at that query times the rate of the query hour, whatever the rate at    *)
(* entry; of two successive queries with the same billable hours, one in a *)
(* peak and one in an off-peak hour, the fees differ.                      *)
C18_FeeAtTheRateOfTheQueryHour ==
    [][\A now \in QueryTimes :
          show_parking_data(now) =>
              \A s \in DOMAIN parking_data :
                  (Parked(s) /\ EnteredAt(s) <= now) =>
                      LET r == response'.rows[s]
                          hours == CeilHours(now - EnteredAt(s))
                      IN  /\ r.revenue = hours * TariffRate(HourOf(now))
                          /\ (/\ response.kind = "Table"
                              /\ response.rows[s].duration_min >= 0
                              /\ CeilHours(response.rows[s].duration_min) = hours
                              /\ response.rows[s].Rate # r.Rate)
                             => response.rows[s].revenue # r.revenue]_vars

\* a vehicle that entered in a peak hour is charged two hours at the
\* off-peak rate of the query hour
C18_PeakEntryBilledOffPeak ==
    /\ response.kind = "Table"
    /\ \E s \in DOMAIN response.rows :
          /\ response.rows[s].Entry = Some(480)
          /\ response.rows[s].duration_min = 120
          /\ response.rows[s].revenue = 100

C20_CountsPartitionTheInventory ==
    [][\A now \in QueryTimes :
          (get_stats_api(now) /\ response'.kind = "Stats") =>
              LET o == response'.overall
                  Count(st) == Cardinality({s \in DOMAIN parking_data :
                                  Effective(parking_data[s]) = st})
              IN  /\ o.occupied = Count("OCCUPIED")
                  /\ o.available = Count("AVAILABLE")
                  /\ o.maintenance = Count("MAINTENANCE")
                  /\ o.occupied + o.available + o.maintenance
                        = Len(parking_data)
                  /\ o.reserved = Cardinality({s \in DOMAIN parking_data :
                                      parking_data[s].is_reserved})]_vars

\* the only reserved slot is an available one and is counted twice
C20_ReservedAvailableCountedTwice ==
    /\ response.kind = "Stats"
    /\ response.overall.reserved = 1
    /\ response.overall.available >= 1
    /\ \E s \in DOMAIN parking_data :
          /\ parking_data[s].is_reserved
          /\ Effective(parking_data[s]) = "AVAILABLE"

----------------------------------------------------------------------------
(* Alerts *)

\* the alerts whose conditions hold for the statistics at hour h, in the
\* order occupancy, overstay, revenue milestone, peak hour
ExpectedAlerts(stats, h) ==
    LET q == stats.occupancy_rate
    IN  (IF q[1] > 85 * q[2] THEN <<Alert("critical", "occupancy")>>
         ELSE IF q[1] > 70 * q[2] THEN <<Alert("warning", "occupancy")>>
         ELSE <<>>)
        \o (IF stats.overstay_count > 0
            THEN <<Alert("warning", "overstay")>> ELSE <<>>)
        \o (IF stats.total_earnings > 10000
            THEN <<Alert("success", "revenue")>> ELSE <<>>)
        \o (IF TariffRate(h) = 75 THEN <<Alert("info", "peak")>> ELSE <<>>)

\* thread t completes an evaluation of the alerts
Evaluated(t) == pc[t] = "al_peak" /\ pc'[t] = "al_render"

(* C21: every alert evaluation produces at most one occupancy alert:       *)
(* Critical exactly when the occupancy rate is above 85, Warning exactly   *)
(* when it is above 70 and at most 85, none when it is at most 70; with 86 *)
(* of 100 slots occupied the Critical alert is present and the occupancy   *)
(* Warning is absent.                                                      *)
C21_OneOccupancyAlert ==
    [][\A t \in Threads :
          Evaluated(t) =>
              LET q == local[t].stats.occupancy_rate
                  occ == {i \in 1..Len(alerts') : alerts'[i].about = "occupancy"}
                  Has(type) == \E i \in occ : alerts'[i].type = type
              IN  /\ Cardinality(occ) <= 1
                  /\ Has("critical") <=> q[1] > 85 * q[2]
                  /\ Has("warning") <=> (q[1] > 70 * q[2] /\ q[1] <= 85 * q[2])
                  /\ q[1] <= 70 * q[2] => occ = {}
                  /\ q = <<8600, 100>> => Has("critical") /\ ~Has("warning")]_vars

\* with 86 of 100 slots occupied the list starts with the Critical alert
C21_CriticalAt86 ==
    \E t \in Threads :
        /\ pc[t] = "al_render"
        /\ local[t].stats.occupancy_rate = <<8600, 100>>
        /\ alerts[1] = Alert("critical", "occupancy")

(* C22: after every evaluation the alert list is exactly the alerts whose  *)
(* conditions hold for the given statistics, in the order occupancy,       *)
(* overstay, revenue milestone, peak hour; it holds nothing of earlier     *)
(* evaluations, so that the same statistics and hour give the same list.   *)
C22_ListIsReplaced ==
    [][\A t \in Threads :
          Evaluated(t) =>
              alerts' = ExpectedAlerts(local[t].stats, local[t].hour)]_vars

\* an evaluation that raises no alert follows one that raised all four
C22_EmptyAfterFull ==
    \E t \in Threads :
        /\ pc[t] = "al_render"
        /\ alerts = <<>>
        /\ response.kind = "Dashboard"
        /\ Len(response.alerts) = 4

(* C23: when two handlers evaluate alerts concurrently on different        *)
(* statistics, each renders the complete alert list of its own statistics, *)
(* never the list of the other handler or a partly built list.             *)
C23_RendersItsOwnAlerts ==
    [][\A t \in Threads :
          (pc[t] = "al_render" /\ pc'[t] = "idle") =>
              response'.alerts
                  = ExpectedAlerts(local[t].stats, local[t].hour)]_vars

----------------------------------------------------------------------------
(* Slot records *)

\* no handler is between two of its steps
AtRest == \A t \in Threads : pc[t] = "idle"

(* C24: a slot has a vehicle type, a license plate or a customer id only   *)
(* while its status is occupied.                                           *)
C24_VehicleDataOnlyWhileOccupied ==
    \A s \in Slots :
        (\/ parking_data[s].vehicle_type # None
         \/ parking_data[s].license_plate # None
         \/ parking_data[s].customer_id # None)
        => parking_data[s].status = "occupied"

(* C25: a slot has an entry time if and only if its raw status is          *)
(* occupied.                                                               *)
C25_EntryTimeIffOccupied ==
    \A s \in Slots :
        parking_data[s].entry_time # None <=> parking_data[s].status = "occupied"

(* C26: the slot of every Active booking has is_reserved = true; checking  *)
(* out one booking never removes the reservation another Active booking    *)
(* holds on the same slot.  Stated for the states in which no handler is   *)
(* between two of its steps.                                               *)
C26_ActiveBookingHoldsReservation ==
    AtRest =>
        \A i \in 1..Len(bookings) :
            Active(i) => parking_data[bookings[i].slot].is_reserved

\* the slot record after a booking by entry point op for request data and
\* the checkout of that booking, nothing running in between
BookedAndCheckedOut(d, op, data) ==
    FreeSlot(MarkReserved(d, [op |-> op, vehicle |-> data.vehicle,
                              license |-> data.license]))

(* C27: from any reachable state, a successful booking immediately         *)
(* followed by the checkout of that booking leaves every slot record equal *)
(* to its value before the booking.                                        *)
C27_BookThenCheckoutRestoresSlots ==
    AtRest =>
        \A data \in CompleteRequests, op \in {"api", "form"} :
            available_df(parking_data) # {} =>
                LET slot == SelectSlot(parking_data, data.zone)
                IN  BookedAndCheckedOut(parking_data[slot], op, data)
                        = parking_data[slot]

(* C28: a step of simulate_parking_activity leaves every field of every    *)
(* slot that is in maintenance or reserved unchanged: it never makes a     *)
(* reserved slot occupied and never erases the vehicle type and license    *)
(* plate a booking wrote on it.                                            *)
C28_SimulationSkipsReservedSlots ==
    [][\A hit \in SUBSET Slots :
          simulate_parking_activity(hit) =>
              \A s \in Slots :
                  (parking_data[s].maintenance \/ parking_data[s].is_reserved)
                  => parking_data'[s] = parking_data[s]]_vars

\* the entry point that is not op
OtherEntryPoint(op) == IF op = "api" THEN "form" ELSE "api"

(* C29: create_booking_api and confirm_booking, given the same state and   *)
(* the same valid request, choose the same slot, issue the same booking id *)
(* and cost and leave the slot store in the same state: every step of a    *)
(* booking by one entry point yields what the other one yields in its      *)
(* place.                                                                  *)
C29_EntryPointsAgree ==
    [][\A t \in Threads :
          /\ \A data \in CompleteRequests, h \in SeqHours :
                /\ (create_booking_api(t, data, h) /\ Selects(t)) =>
                      /\ local'[t].slot = SelectSlot(parking_data, data.zone)
                      /\ local'[t].cost = data.duration[1] * get_dynamic_rate(h)
                /\ (confirm_booking(t, data, h) /\ Selects(t)) =>
                      /\ local'[t].slot = SelectSlot(parking_data, data.zone)
                      /\ local'[t].cost
                            = round2(data.duration[1] * get_dynamic_rate(h))
          /\ (pc[t] = "read_counter" /\ pc'[t] = "load_counter") =>
                local'[t].booking_id = BookingId(booking_counter)
          /\ (pc[t] = "reserve" /\ pc'[t] = "idle") =>
                parking_data' = [parking_data EXCEPT ![local[t].slot] =
                    MarkReserved(@, [local[t] EXCEPT
                                        !.op = OtherEntryPoint(local[t].op)])]]_vars

(* C30: every stored booking has a duration of at least 1 hour and a cost  *)
(* above 0; a request whose duration is zero or negative creates no        *)
(* booking and reserves no slot.                                           *)
C30_DurationAtLeastOne ==
    \A i \in 1..Len(bookings) :
        bookings[i].duration >= 1 /\ bookings[i].cost > 0

====
